---- MODULE Spec2Model ----
(***************************************************************************)
(* Movie/Book Finder (src/movie-book-finder/src/App.tsx): the App          *)
(* component's state, its event handlers, the two catalog adapters and     *)
(* the useLocalFavorites hook with its localStorage persistence.           *)
(***************************************************************************)
EXTENDS Integers, Sequences, FiniteSets, TLC

VARIABLES
    hasKey,         \* OMDB_KEY is set (build-time configuration)
    storage,        \* localStorage[STORAGE_KEY]
    favs,           \* useLocalFavorites: favs
    effectPending,  \* the [favs] effect is scheduled and has not run yet
    crashed,        \* a render threw: React unmounted the tree
    media, tab, q, loading, hits, error,
    openId, details, detailsLoading,
    searchReqs,     \* runSearch calls suspended at their await
    detailsReqs,    \* openDetails calls suspended at their await
    issued,         \* how many requests this page load has issued
    lastApplied,    \* the search response setHits applied last
    newestApplied   \* the applied search response of the latest submission

vars == <<hasKey, storage, favs, effectPending, crashed, media, tab, q, loading,
          hits, error, openId, details, detailsLoading, searchReqs, detailsReqs,
          issued, lastApplied, newestApplied>>

ui == <<media, tab, q, loading, hits, error>>
modal == <<openId, details, detailsLoading>>
net == <<searchReqs, detailsReqs, issued, lastApplied, newestApplied>>

-----------------------------------------------------------------------------
(* Bounds *)
MaxRequests == 2

(* Program constants *)
MinQueryLen == 2

-----------------------------------------------------------------------------
(* JavaScript values *)
Undefined == "undefined"
Null == "null"

Arr(s) == [t |-> "array", items |-> s]
JNull == [t |-> "null"]
JObj == [t |-> "object"]
IsArray(v) == v.t = "array"

\* details === null
NullDetails == [type |-> Null, id |-> Null]

Get(h, k) == IF k \in DOMAIN h THEN h[k] ELSE Undefined

\* JSON.stringify of an object leaves out the keys whose value is undefined
ObjToJson(h) == [k \in {x \in DOMAIN h : h[x] # Undefined} |-> h[k]]

(* Hits as the adapters build them: every key is present, some undefined *)
Ma == [id |-> "a", title |-> "Alpha", year |-> "2014", poster |-> Undefined, type |-> "movie"]
Mb == [id |-> "b", title |-> "Beta", year |-> "1999", poster |-> "p", type |-> "movie"]
Ba == [id |-> "a", title |-> "Alpha", authors |-> Undefined, year |-> "", poster |-> Undefined, type |-> "book"]

AllCards == {Ma, Mb, Ba, ObjToJson(Ma), ObjToJson(Mb), ObjToJson(Ba)}

MovieResults == {<<>>, <<Mb, Ma>>}
BookResults == {<<>>, <<Ba>>}

-----------------------------------------------------------------------------
(* JSON.stringify / JSON.parse / localStorage *)
Missing == [kind |-> "missing"]
NonJson == [kind |-> "text"]
Json(v) == [kind |-> "json", value |-> v]

JSONstringify(v) ==
    IF IsArray(v)
    THEN Json(Arr([i \in 1..Len(v.items) |-> ObjToJson(v.items[i])]))
    ELSE Json(v)

JSONparseThrows(raw) == raw.kind = "text"

JSONparse(raw) == raw.value

\* the useState initializer: getItem, JSON.parse, catch
LoadFavs(raw) ==
    IF raw.kind = "missing" THEN Arr(<<>>)
    ELSE IF JSONparseThrows(raw) THEN Arr(<<>>)
    ELSE JSONparse(raw)

\* variant: the effect closes over the list of the first render
EffectWriteStale(f) == JSONstringify(Arr(<<>>))

EffectWrite(f) == JSONstringify(f)

-----------------------------------------------------------------------------
(* useLocalFavorites *)
some(prev, id) == \E i \in 1..Len(prev) : Get(prev[i], "id") = id

\* variant: the new entry goes to the end of the list
toggleAppends(prev, item) ==
    IF some(prev, Get(item, "id"))
    THEN SelectSeq(prev, LAMBDA f : Get(f, "id") # Get(item, "id"))
    ELSE prev \o <<item>>

\* variant: entries are compared as whole objects, not by id
toggleByObject(prev, item) ==
    IF \E i \in 1..Len(prev) : prev[i] = item
    THEN SelectSeq(prev, LAMBDA f : f # item)
    ELSE <<item>> \o prev

toggle(prev, item) ==
    IF some(prev, Get(item, "id"))
    THEN SelectSeq(prev, LAMBDA f : Get(f, "id") # Get(item, "id"))
    ELSE <<item>> \o prev

-----------------------------------------------------------------------------
(* Query text *)
\* the texts the input can hold: empty, one letter in blanks, a blank and two letters
Queries == {<<>>, <<" ", "a", " ">>, <<" ", "a", "a">>}

RECURSIVE trimStart(_)
trimStart(s) == IF s # <<>> /\ Head(s) = " " THEN trimStart(Tail(s)) ELSE s

RECURSIVE trimEnd(_)
trimEnd(s) ==
    IF s # <<>> /\ s[Len(s)] = " " THEN trimEnd(SubSeq(s, 1, Len(s) - 1)) ELSE s

trim(s) == trimEnd(trimStart(s))

\* variant: the length test is on the untrimmed text
canSearchUntrimmed(s) == Len(s) >= MinQueryLen

canSearch(s) == Len(trim(s)) >= MinQueryLen

-----------------------------------------------------------------------------
(* Rendering: what the render function evaluates, and whether it throws *)
RenderThrows(f, tb, hs) ==
    \/ f.t = "null"
    \/ ~IsArray(f) /\ tb = "results" /\ hs # <<>>

Cards(f, tb, hs) ==
    IF tb = "results" THEN {hs[i] : i \in 1..Len(hs)}
    ELSE IF IsArray(f) THEN {f.items[i] : i \in 1..Len(f.items)}
    ELSE {}

ConfigMsg == "Missing OMDb API key. Add VITE_OMDB_KEY in .env"
NetworkMsg == "Failed to fetch"

-----------------------------------------------------------------------------
InitialStorage ==
    {Missing, NonJson, Json(JNull), Json(JObj),
     JSONstringify(Arr(<<>>)), JSONstringify(Arr(<<Mb>>))}

Mount(raw) ==
    /\ favs = LoadFavs(raw)
    /\ media = "movie" /\ tab = "results" /\ q = <<>>
    /\ loading = FALSE /\ hits = <<>> /\ error = Null
    /\ openId = Null /\ details = NullDetails /\ detailsLoading = FALSE
    /\ searchReqs = {} /\ detailsReqs = {}
    /\ issued = 0
    /\ lastApplied = [seq |-> 0, results |-> <<>>]
    /\ newestApplied = [seq |-> 0, results |-> <<>>]
    /\ crashed = RenderThrows(LoadFavs(raw), "results", <<>>)
    /\ effectPending = ~RenderThrows(LoadFavs(raw), "results", <<>>)

Init ==
    /\ hasKey \in BOOLEAN
    /\ storage \in InitialStorage
    /\ Mount(storage)

-----------------------------------------------------------------------------
(* Catalog adapters: what a call does before its first await *)
NeedsKey(m) == m = "movie"

\* variant: searchMovies without its key check
SearchNeverRejectsEarly(m, key) == FALSE

\* searchMovies throws before fetch when OMDB_KEY is unset; searchBooks never does
SearchRejectsEarly(m, key) == NeedsKey(m) /\ ~key

\* getMovieDetails returns null before fetch when OMDB_KEY is unset
DetailsAbsentEarly(type, key) == NeedsKey(type) /\ ~key

ResultsFor(m) == IF m = "movie" THEN MovieResults ELSE BookResults

DetailsFor(r) == [type |-> r.type, id |-> r.id]

\* variant: a response older than one already applied is dropped
ApplyResultsUnlessStale(r, results, shown) ==
    IF r.seq < newestApplied.seq THEN shown ELSE results

\* setHits(results) in the continuation of request r
ApplyResults(r, results, shown) == results

-----------------------------------------------------------------------------
(* App: event handlers *)
Live == ~crashed /\ ~effectPending

Rendered == crashed' = RenderThrows(favs', tab', hits')

SetMedia(m) ==
    /\ Live
    /\ media' = m
    /\ UNCHANGED <<hasKey, storage, favs, effectPending, tab, q, loading, hits, error>>
    /\ UNCHANGED <<modal, net>>
    /\ Rendered

SetTab(t) ==
    /\ Live
    /\ tab' = t
    /\ UNCHANGED <<hasKey, storage, favs, effectPending, media, q, loading, hits, error>>
    /\ UNCHANGED <<modal, net>>
    /\ Rendered

SetQ(s) ==
    /\ Live
    /\ q' = s
    /\ UNCHANGED <<hasKey, storage, favs, effectPending, media, tab, loading, hits, error>>
    /\ UNCHANGED <<modal, net>>
    /\ Rendered

\* variant: runSearch without setError(null)
runSearchKeepsError ==
    IF ~canSearch(q)
    THEN UNCHANGED <<loading, error, searchReqs, issued>>
    ELSE IF SearchRejectsEarly(media, hasKey)
    THEN /\ error' = ConfigMsg
         /\ loading' = FALSE
         /\ UNCHANGED <<searchReqs, issued>>
    ELSE /\ issued < MaxRequests
         /\ issued' = issued + 1
         /\ searchReqs' = searchReqs \cup
                {[seq |-> issued + 1, media |-> media, q |-> trim(q)]}
         /\ loading' = TRUE
         /\ UNCHANGED error

\* runSearch up to its await (or through catch/finally when the adapter throws at once)
runSearch ==
    IF ~canSearch(q)
    THEN UNCHANGED <<loading, error, searchReqs, issued>>
    ELSE IF SearchRejectsEarly(media, hasKey)
    THEN /\ error' = ConfigMsg
         /\ loading' = FALSE
         /\ UNCHANGED <<searchReqs, issued>>
    ELSE /\ issued < MaxRequests
         /\ issued' = issued + 1
         /\ searchReqs' = searchReqs \cup
                {[seq |-> issued + 1, media |-> media, q |-> trim(q)]}
         /\ loading' = TRUE
         /\ error' = Null

PressEnter ==
    /\ Live
    /\ runSearch
    /\ UNCHANGED <<hasKey, storage, favs, effectPending, media, tab, q, hits>>
    /\ UNCHANGED <<modal, detailsReqs, lastApplied, newestApplied>>
    /\ Rendered

SearchDisabled == ~canSearch(q) \/ loading

ClickSearch ==
    /\ Live
    /\ IF SearchDisabled
       THEN UNCHANGED <<loading, error, searchReqs, issued>>
       ELSE runSearch
    /\ UNCHANGED <<hasKey, storage, favs, effectPending, media, tab, q, hits>>
    /\ UNCHANGED <<modal, detailsReqs, lastApplied, newestApplied>>
    /\ Rendered

\* the rest of runSearch after a fulfilled await: setHits, setTab, finally
SearchOk(r, results) ==
    /\ Live
    /\ r \in searchReqs
    /\ results \in ResultsFor(r.media)
    /\ searchReqs' = searchReqs \ {r}
    /\ hits' = ApplyResults(r, results, hits)
    /\ tab' = "results"
    /\ loading' = FALSE
    /\ lastApplied' = [seq |-> r.seq, results |-> results]
    /\ newestApplied' = IF r.seq > newestApplied.seq THEN lastApplied' ELSE newestApplied
    /\ UNCHANGED <<hasKey, storage, favs, effectPending, media, q, error>>
    /\ UNCHANGED <<modal, detailsReqs, issued>>
    /\ Rendered

\* the rest of runSearch after a rejected await: catch, finally
SearchFail(r) ==
    /\ Live
    /\ r \in searchReqs
    /\ searchReqs' = searchReqs \ {r}
    /\ error' = NetworkMsg
    /\ loading' = FALSE
    /\ UNCHANGED <<hasKey, storage, favs, effectPending, media, tab, q, hits>>
    /\ UNCHANGED <<modal, detailsReqs, issued, lastApplied, newestApplied>>
    /\ Rendered

OpenDetails(item) ==
    /\ Live
    /\ item \in Cards(favs, tab, hits)
    /\ openId' = Get(item, "id")
    /\ details' = NullDetails
    /\ IF DetailsAbsentEarly(Get(item, "type"), hasKey)
       THEN /\ detailsLoading' = FALSE
            /\ UNCHANGED <<detailsReqs, issued>>
       ELSE /\ issued < MaxRequests
            /\ issued' = issued + 1
            /\ detailsReqs' = detailsReqs \cup
                   {[seq |-> issued + 1, id |-> Get(item, "id"), type |-> Get(item, "type")]}
            /\ detailsLoading' = TRUE
    /\ UNCHANGED <<hasKey, storage, favs, effectPending, ui>>
    /\ UNCHANGED <<searchReqs, lastApplied, newestApplied>>
    /\ Rendered

\* the rest of openDetails after a fulfilled await: d is the record or null
DetailsOk(r, d) ==
    /\ Live
    /\ r \in detailsReqs
    /\ d \in {NullDetails, DetailsFor(r)}
    /\ detailsReqs' = detailsReqs \ {r}
    /\ details' = d
    /\ detailsLoading' = FALSE
    /\ UNCHANGED <<hasKey, storage, favs, effectPending, ui, openId>>
    /\ UNCHANGED <<searchReqs, issued, lastApplied, newestApplied>>
    /\ Rendered

\* the rest of openDetails after a rejected await: finally only
DetailsFail(r) ==
    /\ Live
    /\ r \in detailsReqs
    /\ detailsReqs' = detailsReqs \ {r}
    /\ detailsLoading' = FALSE
    /\ UNCHANGED <<hasKey, storage, favs, effectPending, ui, openId, details>>
    /\ UNCHANGED <<searchReqs, issued, lastApplied, newestApplied>>
    /\ Rendered

CloseModal ==
    /\ Live
    /\ openId # Null
    /\ openId' = Null
    /\ UNCHANGED <<hasKey, storage, favs, effectPending, ui, details, detailsLoading>>
    /\ UNCHANGED net
    /\ Rendered

Toggle(item) ==
    /\ Live
    /\ item \in Cards(favs, tab, hits)
    /\ favs' = Arr(toggle(favs.items, item))
    /\ effectPending' = TRUE
    /\ UNCHANGED <<hasKey, storage, ui>>
    /\ UNCHANGED <<modal, net>>
    /\ Rendered

\* useEffect(() => localStorage.setItem(...), [favs])
PersistEffect ==
    /\ ~crashed
    /\ effectPending
    /\ storage' = EffectWrite(favs)
    /\ effectPending' = FALSE
    /\ UNCHANGED <<hasKey, favs, crashed, ui>>
    /\ UNCHANGED <<modal, net>>

\* the page is loaded again: only localStorage and the build survive
Reload ==
    /\ UNCHANGED <<hasKey, storage>>
    /\ favs' = LoadFavs(storage)
    /\ media' = "movie" /\ tab' = "results" /\ q' = <<>>
    /\ loading' = FALSE /\ hits' = <<>> /\ error' = Null
    /\ openId' = Null /\ details' = NullDetails /\ detailsLoading' = FALSE
    /\ searchReqs' = {} /\ detailsReqs' = {}
    /\ issued' = 0
    /\ lastApplied' = [seq |-> 0, results |-> <<>>]
    /\ newestApplied' = [seq |-> 0, results |-> <<>>]
    /\ crashed' = RenderThrows(LoadFavs(storage), "results", <<>>)
    /\ effectPending' = ~RenderThrows(LoadFavs(storage), "results", <<>>)

Next ==
    \/ \E m \in {"movie", "book"} : SetMedia(m)
    \/ \E t \in {"results", "favorites"} : SetTab(t)
    \/ \E s \in Queries : SetQ(s)
    \/ PressEnter
    \/ ClickSearch
    \/ \E r \in searchReqs : \E results \in MovieResults \cup BookResults : SearchOk(r, results)
    \/ \E r \in searchReqs : SearchFail(r)
    \/ \E item \in AllCards : OpenDetails(item)
    \/ \E r \in detailsReqs : \E d \in {NullDetails, DetailsFor(r)} : DetailsOk(r, d)
    \/ \E r \in detailsReqs : DetailsFail(r)
    \/ CloseModal
    \/ \E item \in AllCards : Toggle(item)
    \/ PersistEffect
    \/ Reload

Spec == Init /\ [][Next]_vars

-----------------------------------------------------------------------------
(* Properties *)

Elems(list) == {list[i] : i \in 1..Len(list)}

Ids(list) == [i \in 1..Len(list) |-> Get(list[i], "id")]

\* C1: for the favorites list L and every hit h whose id is not in L, toggle(h)
\* gives [h] followed by L, and a second toggle(h) gives back exactly L.
C1_ToggleTwiceRestores ==
    IsArray(favs) =>
        \A h \in AllCards :
            ~some(favs.items, Get(h, "id")) =>
                /\ toggle(favs.items, h) = <<h>> \o favs.items
                /\ toggle(toggle(favs.items, h), h) = favs.items

\* a list of two whose head the adapter built (so a toggle of this page load
\* put it in front), and which a second toggle of that hit takes out again
C1_Witness ==
    /\ IsArray(favs)
    /\ Len(favs.items) = 2
    /\ Head(favs.items) = Ma
    /\ ~some(Tail(favs.items), "a")
    /\ toggle(favs.items, Ma) = Tail(favs.items)

\* C2: a search action (Enter or the Search button) with a trimmed query of fewer
\* than 2 characters issues no request and leaves loading, error, hits and tab as
\* they are.
C2_ShortQueryInert ==
    [][((PressEnter \/ ClickSearch) /\ Len(trim(q)) < MinQueryLen)
         => UNCHANGED <<loading, error, hits, tab, searchReqs, detailsReqs, issued>>]_vars

\* a live page whose non-empty query trims below 2 characters, on the favorites
\* tab, with hits and an error on screen for the search action to leave alone
C2_Witness ==
    /\ Live
    /\ q = <<" ", "a", " ">>
    /\ tab = "favorites"
    /\ hits # <<>>
    /\ error # Null

\* C3 (as claimed): at most one search request and at most one details request
\* is in flight.
C3_AtMostOneInFlight ==
    /\ Cardinality(searchReqs) <= 1
    /\ Cardinality(detailsReqs) <= 1

WellFormed(raw) == raw.kind = "json" /\ IsArray(raw.value)

\* C4 (as claimed): when the stored value is missing or is not a serialized
\* array, the favorites are the empty list and nothing throws.
C4_LoadFailsSafe ==
    ~WellFormed(storage) => (favs = Arr(<<>>) /\ ~crashed)

SameIds(a, b) ==
    IF IsArray(a) /\ IsArray(b) THEN Ids(a.items) = Ids(b.items) ELSE a = b

\* C5: whenever no persistence effect is pending, loading the stored value gives
\* a list with the ids of the in-memory list, in the same order.
C5_WriteThrough ==
    (~crashed /\ ~effectPending) => SameIds(LoadFavs(storage), favs)

\* two favorites written through, one of them built by the adapter with an
\* undefined key, so that what is stored is not the in-memory list itself
C5_Witness ==
    /\ ~crashed /\ ~effectPending
    /\ IsArray(favs)
    /\ Len(favs.items) = 2
    /\ Ma \in Elems(favs.items)
    /\ storage = JSONstringify(favs)
    /\ LoadFavs(storage) # favs
    /\ Ids(LoadFavs(storage).items) = Ids(favs.items)

Submits == (PressEnter \/ ClickSearch) /\ issued' = issued + 1

Settles(r) == r \in searchReqs /\ r \notin searchReqs' /\ issued' = issued

\* C7: a submitted search sets loading and clears the error; when it settles,
\* either the hits become the returned ones or the error is stored, never both,
\* and loading is cleared; with no search outstanding, loading is false.
C7_SearchLifecycle ==
    [][/\ Submits => (loading' /\ error' = Null)
       /\ \A r \in searchReqs :
              Settles(r) =>
                  /\ ~loading'
                  /\ \/ /\ lastApplied'.seq = r.seq
                        /\ hits' = lastApplied'.results
                        /\ error' = error
                     \/ /\ lastApplied' = lastApplied
                        /\ hits' = hits
                        /\ error' = NetworkMsg
       /\ (searchReqs' = {} /\ ~crashed') => ~loading']_vars

\* both searches of the page load have settled, one into hits and one into an
\* error, and loading is false
C7_Witness ==
    /\ ~crashed
    /\ issued = MaxRequests
    /\ searchReqs = {} /\ detailsReqs = {}
    /\ lastApplied.seq = 1
    /\ hits = <<Mb, Ma>>
    /\ error = NetworkMsg
    /\ ~loading

IsSearchStep == PressEnter \/ (ClickSearch /\ ~loading)

\* a step that changes the modal's state or the details requests
ModalStep == modal' # modal \/ detailsReqs' # detailsReqs

\* C8: without the key, a movie search with a valid query stores the
\* configuration error, clears loading, issues no request and leaves the hits;
\* movie details are absent at once; a book search and book details issue
\* their request whether or not the key is set.
C8_MissingKey ==
    [][/\ (~hasKey /\ media = "movie" /\ Len(trim(q)) >= MinQueryLen /\ IsSearchStep)
          => /\ error' = ConfigMsg
             /\ ~loading'
             /\ hits' = hits
             /\ searchReqs' = searchReqs /\ issued' = issued
       /\ \A item \in AllCards :
             (~hasKey /\ Get(item, "type") = "movie" /\ ModalStep /\ OpenDetails(item))
                 => /\ details' = NullDetails
                    /\ ~detailsLoading'
                    /\ detailsReqs' = detailsReqs /\ issued' = issued
       /\ (media = "book" /\ Len(trim(q)) >= MinQueryLen /\ IsSearchStep)
          => /\ searchReqs' = searchReqs \cup
                    {[seq |-> issued + 1, media |-> "book", q |-> trim(q)]}
             /\ loading' /\ error' = Null
       /\ \A item \in AllCards :
             (Get(item, "type") = "book" /\ ModalStep /\ OpenDetails(item))
                 => /\ detailsLoading'
                    /\ \E r \in detailsReqs' \ detailsReqs :
                          r.type = "book" /\ r.id = Get(item, "id")
       /\ ~hasKey => \A r \in searchReqs' \cup detailsReqs' :
                         Get(r, "media") # "movie" /\ Get(r, "type") # "movie"]_vars

\* no key: a book search has filled the hits, and a movie search with a valid
\* query has then ended in the configuration error with the hits still there
C8_Witness ==
    /\ ~hasKey
    /\ ~crashed
    /\ media = "movie"
    /\ canSearch(q)
    /\ error = ConfigMsg
    /\ ~loading
    /\ hits = <<Ba>>
    /\ searchReqs = {}

\* C9: a response is applied whatever has been submitted or applied since: the
\* hits on screen are those of the response that arrived last.
C9_LastArrivalShown ==
    lastApplied.seq # 0 => hits = lastApplied.results

\* search A, then search B; B's response was applied, then A's: the hits are
\* A's and not B's
C9_Witness ==
    /\ ~crashed
    /\ lastApplied.seq < newestApplied.seq
    /\ searchReqs = {}
    /\ hits = lastApplied.results
    /\ hits # newestApplied.results

\* C10 (as claimed): with the modal open and detailsLoading false, details that
\* are present are those of the selected hit, and no details request for the
\* selected hit is in flight.
C10_DetailsMatchSelection ==
    (openId # Null /\ ~detailsLoading) =>
        /\ details # NullDetails => details.id = openId
        /\ \A r \in detailsReqs : r.id # openId

====
